---- MODULE Spec2Model ----
(***************************************************************************)
(* Reactive membrane of raptor-engine: the proxy handler of                *)
(* framework/reactive.ts on top of the watcher (notifyListeners,           *)
(* watchProperty, subscribeToSetHook).  Original targets are JavaScript    *)
(* objects with own data properties or watcher accessors; every membrane   *)
(* proxy has a shadow target on which the host checks the proxy            *)
(* invariants of ECMAScript after each trap.                               *)
(***************************************************************************)
EXTENDS Integers, FiniteSets, Sequences, TLC

\* Most membrane proxies ever allocated.
MaxProxies == 3
\* Cap of the per-consumer count of scheduleRehydration calls.
MaxSched == 2

\* ------------------------------------------------------------------------
\* Values.  Every JavaScript value of the model is a string: "undefined",
\* a number, the identity of an original target, or the identity of a proxy.
Undef == "undefined"
\* the numbers 0 and 1
Nums == {"0", "1"}

Objs == {"o1", "o2", "arr"}
\* an object whose prototype is neither Object.prototype nor null (a Date)
Foreign == {"dt"}
\* o1 is an object literal, o2 was made by Object.create(null)
getPrototypeOf(o) ==
    IF o = "o1" THEN "Object.prototype"
    ELSE IF o = "o2" THEN "null"
    ELSE IF o = "arr" THEN "Array.prototype"
    ELSE IF o \in Foreign THEN "Date.prototype"
    ELSE "Number.prototype"
\* !value
Falsy(v) == v \in {"undefined", "0"}
ProxyNames == <<"p1", "p2", "p3", "p4", "p5", "p6">>
AllProxies == {ProxyNames[i] : i \in 1..Len(ProxyNames)}
Consumers == {"vm1", "vm2"}
NoVM == "none"

RecKeys == {"a", "b"}
ArrKeys == {"0", "length"}
Keys == RecKeys \cup ArrKeys
\* getOwnPropertyNames order: integer keys first, then the others
KeyOrder == <<"0", "length", "a", "b">>

isArray(o) == o = "arr"

\* ------------------------------------------------------------------------
\* Property slots of an object: absent, a data property, or the accessor
\* pair installed by watchProperty (with the state of its closures).
NoSlot ==
    [kind |-> "none", value |-> Undef, conf |-> FALSE, writ |-> FALSE,
     old |-> Undef, first |-> FALSE, tgt |-> Undef]
Data(v, c, w) ==
    [kind |-> "data", value |-> v, conf |-> c, writ |-> w,
     old |-> Undef, first |-> FALSE, tgt |-> Undef]
\* value: the variable captured by the get/set pair of watchProperty;
\* old, first: oldValue and isFirstTimeGetterIsCalled; tgt: the captured target
Watch(v, oldv, f, t) ==
    [kind |-> "watch", value |-> v, conf |-> TRUE, writ |-> TRUE,
     old |-> oldv, first |-> f, tgt |-> t]
\* what a copy of a watcher accessor descriptor looks like on another object
Accessor == Watch(Undef, Undef, FALSE, Undef)

VARIABLES
    props,          \* props[o][k]: own property k of original target o
    ext,            \* ext[o]: o is extensible
    proxyTarget,    \* sequence: handler.originalTarget of the i-th proxy
    ReactiveMap,    \* ReactiveMap[o]: proxy cached for o, or Undef
    shProps,        \* shProps[i][k]: own property k of the i-th shadow target
    shExt,          \* shExt[i]: the i-th shadow target is extensible
    TargetToPropsMap, \* [target identity][key] -> set of consumers
    vmListeners,    \* vm.listeners: the (target, key) sets the vm joined
    isDirty,        \* vm.flags.isDirty
    scheduled,      \* scheduleRehydration(vm) calls since vm was last cleaned
    isRendering,
    vmBeingRendered,
    scenario,       \* the data the application built; never changes
    last            \* the last operation and what it returned

vars == <<props, ext, proxyTarget, ReactiveMap, shProps, shExt,
          TargetToPropsMap, vmListeners, isDirty, scheduled,
          isRendering, vmBeingRendered, scenario, last>>

\* The part of the state the handlers change, as one record.  over: a bound
\* of the model (MaxProxies, MaxSched) was exceeded; such a step is not taken.
Heap ==
    [props |-> props, ext |-> ext, proxyTarget |-> proxyTarget,
     ReactiveMap |-> ReactiveMap, shProps |-> shProps, shExt |-> shExt,
     reg |-> TargetToPropsMap, vmListeners |-> vmListeners,
     isDirty |-> isDirty, scheduled |-> scheduled,
     isRendering |-> isRendering, vmBeingRendered |-> vmBeingRendered,
     over |-> FALSE]

\* A handler's outcome: the heap, whether it returned normally, its result.
Ret(h, ok, v) == [h |-> h, ok |-> ok, ret |-> v]
Throw(h) == Ret(h, FALSE, Undef)

IsObj(v) == v \in Objs
IsProxy(v) == v \in AllProxies
PIdx(p) == CHOOSE i \in 1..Len(ProxyNames) : ProxyNames[i] = p
\* handler.originalTarget of proxy p
TargetOf(h, p) == h.proxyTarget[PIdx(p)]

\* ------------------------------------------------------------------------
\* Render-context bridge (reactivity.js, patcher.js)
markVMAsDirty(h, vm) == [h EXCEPT !.isDirty[vm] = TRUE]

scheduleRehydration(h, vm) ==
    IF h.scheduled[vm] >= MaxSched
    THEN [h EXCEPT !.over = TRUE]
    ELSE [h EXCEPT !.scheduled[vm] = @ + 1]

\* invoker: isRendering and vmBeingRendered during and after a render pass
beginRender(h, vm) == [h EXCEPT !.isRendering = TRUE, !.vmBeingRendered = vm]
endRender(h) == [h EXCEPT !.isRendering = FALSE, !.vmBeingRendered = NoVM]
\* patcher: the rehydration of a dirty vm leaves it clean
clean(h, vm) == [h EXCEPT !.isDirty[vm] = FALSE, !.scheduled[vm] = 0]

\* ------------------------------------------------------------------------
\* watcher: notifyListeners
\* NotifyOne without its isDirty test
NotifyOneAlways(h, vm) == scheduleRehydration(markVMAsDirty(h, vm), vm)

\* the body of the forEach callback
NotifyOne(h, vm) ==
    IF ~h.isDirty[vm]
    THEN scheduleRehydration(markVMAsDirty(h, vm), vm)
    ELSE h

RECURSIVE NotifyEach(_, _)
NotifyEach(h, set) ==
    IF set = {} THEN h
    ELSE LET vm == CHOOSE c \in set : TRUE
         IN  NotifyEach(NotifyOne(h, vm), set \ {vm})

\* notifyListeners running the listeners of every property of target
notifyListenersAllProps(h, target, propName) ==
    NotifyEach(h, UNION {h.reg[target][k] : k \in Keys})

\* TargetToPropsMap.has(target) and PropNameToListenersMap.get(propName):
\* a map and a set exist exactly when a consumer was added to them
notifyListeners(h, target, propName) ==
    NotifyEach(h, h.reg[target][propName])

\* ------------------------------------------------------------------------
\* membrane: unwrap, isObservable, getReactiveProxy
unwrap(h, value) == IF IsProxy(value) THEN TargetOf(h, value) ELSE value

\* isObservable accepting every truthy value
isObservableNoProto(h, value) == ~Falsy(value)

\* Array.isArray and the getPrototypeOf trap of a proxy answer for its
\* original target
isObservable(h, value) ==
    LET t == IF IsProxy(value) THEN TargetOf(h, value) ELSE value
    IN  IF Falsy(value) THEN FALSE
        ELSE IF isArray(t) THEN TRUE
        ELSE getPrototypeOf(t) \in {"Object.prototype", "null"}

\* assert.isTrue(condition, message) throws when the condition is false
AssertFails(condition) == ~condition

EmptyShadow(o) ==
    [k \in Keys |-> IF isArray(o) /\ k = "length"
                    THEN Data("0", FALSE, TRUE) ELSE NoSlot]

\* a cache that never hits
CachedProxyNone(h, o) == Undef

\* ReactiveMap.get(value)
CachedProxy(h, o) == IF o \in DOMAIN h.ReactiveMap THEN h.ReactiveMap[o] ELSE Undef

getReactiveProxy(h, value) ==
    LET o == unwrap(h, value)
        proxy == CachedProxy(h, o)
        i == Len(h.proxyTarget) + 1
    IN  IF AssertFails(isObservable(h, value)) THEN Throw(h)
        ELSE IF proxy /= Undef THEN Ret(h, TRUE, proxy)
        ELSE IF i > MaxProxies THEN Ret([h EXCEPT !.over = TRUE], TRUE, Undef)
        ELSE Ret([h EXCEPT !.proxyTarget = Append(@, o),
                           !.shProps[i] = EmptyShadow(o),
                           !.shExt[i] = TRUE,
                           !.ReactiveMap[o] = ProxyNames[i]],
                 TRUE, ProxyNames[i])

\* descriptors are slots; only a data descriptor has a value
wrapDescriptor(h, descriptor) ==
    LET Wrapped(r) == Ret(r.h, TRUE, [descriptor EXCEPT !.value = r.ret])
    IN  IF descriptor.kind = "data" /\ isObservable(h, descriptor.value)
        THEN Wrapped(getReactiveProxy(h, descriptor.value))
        ELSE Ret(h, TRUE, descriptor)

unwrapDescriptor(h, descriptor) ==
    IF descriptor.kind = "data"
    THEN [descriptor EXCEPT !.value = unwrap(h, descriptor.value)]
    ELSE descriptor

\* ------------------------------------------------------------------------
\* language: Object.defineProperty on an ordinary object with a complete
\* descriptor (ValidateAndApplyPropertyDescriptor)
DefineAllowed(cur, extensible, desc) ==
    IF cur.kind = "none" THEN extensible
    ELSE IF cur.conf THEN TRUE
    ELSE /\ ~desc.conf
         /\ desc.kind = cur.kind
         /\ (cur.kind = "data" =>
                (cur.writ \/ (~desc.writ /\ desc.value = cur.value)))

\* a descriptor as it lands on an object other than the one whose closures
\* it carries
ShadowDesc(desc) == IF desc.kind = "watch" THEN Accessor ELSE desc

\* defineProperty(shadowTarget, key, descriptor)
DefineOnShadow(h, i, key, desc) ==
    IF DefineAllowed(h.shProps[i][key], h.shExt[i], desc)
    THEN Ret([h EXCEPT !.shProps[i][key] = ShadowDesc(desc)], TRUE, Undef)
    ELSE Throw(h)

\* defineProperty(originalTarget, key, descriptor)
DefineOnOriginal(h, o, key, desc) ==
    IF DefineAllowed(h.props[o][key], h.ext[o], desc)
    THEN Ret([h EXCEPT !.props[o][key] = desc], TRUE, Undef)
    ELSE Throw(h)

\* getOwnPropertyNames, in property order
OwnKeys(slots) == SelectSeq(KeyOrder, LAMBDA k : slots[k].kind /= "none")
KeySet(slots) == {k \in Keys : slots[k].kind /= "none"}
\* ------------------------------------------------------------------------
\* membrane: lockShadowTarget
\* the forEach over targetKeys, stopped by a defineProperty that throws
RECURSIVE LockKeys(_, _, _, _)
LockKeys(h, i, o, keys) ==
    IF keys = <<>> THEN Ret(h, TRUE, Undef)
    ELSE LET key == Head(keys)
             descriptor == h.props[o][key]
             Defined(d) ==
                 IF d.ok THEN LockKeys(d.h, i, o, Tail(keys)) ELSE Throw(d.h)
             Define(w) == Defined(DefineOnShadow(w.h, i, key, w.ret))
         IN  Define(IF ~descriptor.conf THEN wrapDescriptor(h, descriptor)
                    ELSE Ret(h, TRUE, descriptor))

lockShadowTarget(h, i, o) ==
    LET Locked(r) ==
            IF r.ok THEN Ret([r.h EXCEPT !.shExt[i] = FALSE], TRUE, Undef)
            ELSE r
    IN  Locked(LockKeys(h, i, o, OwnKeys(h.props[o])))

\* ------------------------------------------------------------------------
\* The traps that do not run watcher code, each followed by the check the
\* host makes of its result against the shadow target.
HandlerGetOwnPropertyDescriptor(h, p, key) ==
    LET i == PIdx(p)
        o == TargetOf(h, p)
        desc == h.props[o][key]
        Defined(w, d) == IF d.ok THEN Ret(d.h, TRUE, w.ret) ELSE Throw(d.h)
        Define(w) == Defined(w, DefineOnShadow(w.h, i, key, w.ret))
    IN  IF desc.kind = "none" THEN Ret(h, TRUE, NoSlot)
        ELSE IF ~desc.conf /\ h.shProps[i][key].kind = "none"
        THEN Define(wrapDescriptor(h, desc))
        ELSE Ret(h, TRUE, desc)

\* [[GetOwnProperty]] of a proxy
ProxyGetOwnPropertyDescriptor(h, p, key) ==
    LET i == PIdx(p)
        Checked(r) ==
            LET targetDesc == r.h.shProps[i][key]
            IN  IF ~r.ok THEN r
                ELSE IF r.ret.kind = "none"
                THEN IF targetDesc.kind = "none" THEN r
                     ELSE IF ~targetDesc.conf \/ ~r.h.shExt[i] THEN Throw(r.h)
                     ELSE r
                ELSE IF ~DefineAllowed(targetDesc, r.h.shExt[i], ShadowDesc(r.ret))
                THEN Throw(r.h)
                ELSE IF ~r.ret.conf /\ (targetDesc.kind = "none" \/ targetDesc.conf)
                THEN Throw(r.h)
                ELSE r
    IN  Checked(HandlerGetOwnPropertyDescriptor(h, p, key))

HandlerDefineProperty(h, p, key, descriptor) ==
    LET i == PIdx(p)
        originalTarget == TargetOf(h, p)
        unwrappedDescriptor == unwrapDescriptor(h, descriptor)
        Defined(d) == IF ~d.ok THEN d ELSE Ret(d.h, TRUE, TRUE)
        Shadowed(s) ==
            IF ~s.ok THEN s
            ELSE Defined(DefineOnOriginal(s.h, originalTarget, key,
                                          unwrappedDescriptor))
    IN  Shadowed(IF ~descriptor.conf
                 THEN DefineOnShadow(h, i, key, unwrappedDescriptor)
                 ELSE Ret(h, TRUE, Undef))

\* [[DefineOwnProperty]] of a proxy: the host compares the descriptor the
\* caller passed, not the copy the trap unwrapped
ProxyDefineProperty(h, p, key, descriptor) ==
    LET i == PIdx(p)
        Checked(r) ==
            LET targetDesc == r.h.shProps[i][key]
            IN  IF ~r.ok THEN r
                ELSE IF targetDesc.kind = "none"
                THEN IF ~r.h.shExt[i] \/ ~descriptor.conf THEN Throw(r.h) ELSE r
                ELSE IF ~DefineAllowed(targetDesc, r.h.shExt[i],
                                       ShadowDesc(descriptor))
                THEN Throw(r.h)
                ELSE IF ~descriptor.conf /\ targetDesc.conf THEN Throw(r.h)
                ELSE r
    IN  Checked(HandlerDefineProperty(h, p, key, descriptor))

HandlerOwnKeys(h, p) == Ret(h, TRUE, OwnKeys(h.props[TargetOf(h, p)]))

HandlerHas(h, p, key) ==
    Ret(h, TRUE, h.props[TargetOf(h, p)][key].kind /= "none")

\* [[HasProperty]] of a proxy
ProxyHas(h, p, key) ==
    LET i == PIdx(p)
        targetDesc == h.shProps[i][key]
        Checked(r) ==
            IF ~r.ret /\ targetDesc.kind /= "none"
                      /\ (~targetDesc.conf \/ ~h.shExt[i])
            THEN Throw(h) ELSE r
    IN  Checked(HandlerHas(h, p, key))

\* [[OwnPropertyKeys]] of a proxy
ProxyOwnKeys(h, p) ==
    LET i == PIdx(p)
        shadowKeys == KeySet(h.shProps[i])
        Checked(r) ==
            LET got == {r.ret[n] : n \in 1..Len(r.ret)}
            IN  IF \E k \in shadowKeys : ~h.shProps[i][k].conf /\ k \notin got
                THEN Throw(h)
                ELSE IF ~h.shExt[i] /\ got /= shadowKeys THEN Throw(h)
                ELSE r
    IN  Checked(HandlerOwnKeys(h, p))

HandlerIsExtensible(h, p) ==
    LET i == PIdx(p)
        originalTarget == TargetOf(h, p)
        shadowIsExtensible == h.shExt[i]
        targetIsExtensible == h.ext[originalTarget]
        Locked(l) == IF l.ok THEN Ret(l.h, TRUE, targetIsExtensible) ELSE l
    IN  IF ~shadowIsExtensible THEN Ret(h, TRUE, shadowIsExtensible)
        ELSE IF ~targetIsExtensible
        THEN Locked(lockShadowTarget(h, i, originalTarget))
        ELSE Ret(h, TRUE, targetIsExtensible)

\* [[IsExtensible]] of a proxy
ProxyIsExtensible(h, p) ==
    LET Checked(r) ==
            IF r.ok /\ r.ret /= r.h.shExt[PIdx(p)] THEN Throw(r.h) ELSE r
    IN  Checked(HandlerIsExtensible(h, p))

HandlerPreventExtensions(h, p) ==
    LET i == PIdx(p)
        originalTarget == TargetOf(h, p)
        Locked(l) ==
            IF ~l.ok THEN l
            ELSE Ret([l.h EXCEPT !.ext[originalTarget] = FALSE], TRUE, TRUE)
    IN  Locked(lockShadowTarget(h, i, originalTarget))

\* [[PreventExtensions]] of a proxy
ProxyPreventExtensions(h, p) ==
    LET Checked(r) == IF r.ok /\ r.h.shExt[PIdx(p)] THEN Throw(r.h) ELSE r
    IN  Checked(HandlerPreventExtensions(h, p))
\* ------------------------------------------------------------------------
\* watcher: watchProperty, subscribeToSetHook and the accessors of
\* getWatchPropertyDescriptor
\* On an original target the descriptor is read and redefined directly; on
\* a proxy (a proxy stored in data reaches here from reactiveGetter) the
\* same calls go through its traps.
\* watchProperty whose get/set pair does not capture the value
watchPropertyDropsValue(h, target, propName) ==
    IF IsProxy(target)
    THEN LET Redefined(d) == IF d.ok THEN Ret(d.h, TRUE, TRUE) ELSE Throw(d.h)
             Described(g) ==
                 LET desc == g.ret
                 IN  IF ~g.ok THEN g
                     ELSE IF desc.kind = "watch" THEN Ret(g.h, TRUE, TRUE)
                     ELSE IF desc.kind = "data" /\ desc.conf
                     THEN Redefined(ProxyDefineProperty(g.h, target, propName,
                              Watch(Undef, desc.value, TRUE, target)))
                     ELSE Ret(g.h, TRUE, FALSE)
         IN  Described(ProxyGetOwnPropertyDescriptor(h, target, propName))
    ELSE LET desc == h.props[target][propName]
         IN  IF desc.kind = "watch" THEN Ret(h, TRUE, TRUE)
             ELSE IF desc.kind = "data" /\ desc.conf
             THEN Ret([h EXCEPT !.props[target][propName] =
                           Watch(Undef, desc.value, TRUE, target)],
                      TRUE, TRUE)
             ELSE Ret(h, TRUE, FALSE)

watchProperty(h, target, propName) ==
    IF IsProxy(target)
    THEN LET Redefined(d) == IF d.ok THEN Ret(d.h, TRUE, TRUE) ELSE Throw(d.h)
             Described(g) ==
                 LET desc == g.ret
                 IN  IF ~g.ok THEN g
                     ELSE IF desc.kind = "watch" THEN Ret(g.h, TRUE, TRUE)
                     ELSE IF desc.kind = "data" /\ desc.conf
                     THEN Redefined(ProxyDefineProperty(g.h, target, propName,
                              Watch(desc.value, desc.value, TRUE, target)))
                     ELSE Ret(g.h, TRUE, FALSE)
         IN  Described(ProxyGetOwnPropertyDescriptor(h, target, propName))
    ELSE LET desc == h.props[target][propName]
         IN  IF desc.kind = "watch" THEN Ret(h, TRUE, TRUE)
             ELSE IF desc.kind = "data" /\ desc.conf
             THEN Ret([h EXCEPT !.props[target][propName] =
                           Watch(desc.value, desc.value, TRUE, target)],
                      TRUE, TRUE)
             ELSE Ret(h, TRUE, FALSE)

\* subscribeToSetHook without vm.listeners.add(set)
subscribeToSetHookNoListeners(h, vm, target, propName) ==
    LET Watched(w) ==
            IF ~w.ok THEN w
            ELSE IF w.ret /\ vm \notin w.h.reg[target][propName]
            THEN Ret([w.h EXCEPT !.reg[target][propName] = @ \cup {vm}],
                     TRUE, Undef)
            ELSE Ret(w.h, TRUE, Undef)
    IN  Watched(watchProperty(h, target, propName))

subscribeToSetHook(h, vm, target, propName) ==
    LET Watched(w) ==
            IF ~w.ok THEN w
            ELSE IF w.ret /\ vm \notin w.h.reg[target][propName]
            THEN Ret([w.h EXCEPT !.reg[target][propName] = @ \cup {vm},
                                 !.vmListeners[vm] = @ \cup {<<target, propName>>}],
                     TRUE, Undef)
            ELSE Ret(w.h, TRUE, Undef)
    IN  Watched(watchProperty(h, target, propName))

\* Object.getOwnPropertyNames(value).forEach(propName => watchProperty(value, propName))
RECURSIVE WatchEach(_, _, _)
WatchEach(h, value, names) ==
    IF names = <<>> THEN Ret(h, TRUE, Undef)
    ELSE LET Watched(w) ==
                 IF w.ok THEN WatchEach(w.h, value, Tail(names)) ELSE Throw(w.h)
         IN  Watched(watchProperty(h, value, Head(names)))

WatchValue(h, value) ==
    LET Each(names) ==
            IF names.ok THEN WatchEach(names.h, value, names.ret)
            ELSE Throw(names.h)
    IN  Each(IF IsProxy(value) THEN ProxyOwnKeys(h, value)
             ELSE Ret(h, TRUE, OwnKeys(h.props[value])))

\* the getter of the accessor on props[o][k]; returns the value
reactiveGetter(h, o, k) ==
    LET slot == h.props[o][k]
        value == slot.value
        Returned(w) ==
            IF ~w.ok THEN Throw(w.h)
            ELSE Ret([w.h EXCEPT !.props[o][k].first = FALSE,
                                 !.props[o][k].old = value],
                     TRUE, value)
        Subscribed(s) ==
            IF ~s.ok THEN Throw(s.h)
            ELSE IF /\ h.isRendering
                    /\ (slot.old /= value \/ slot.first)
                    /\ (IsObj(value) \/ IsProxy(value))
            THEN Returned(WatchValue(s.h, value))
            ELSE Returned(s)
    IN  Subscribed(IF h.isRendering
                   THEN subscribeToSetHook(h, h.vmBeingRendered, slot.tgt, k)
                   ELSE Ret(h, TRUE, Undef))

\* reactiveSetter without its notifyListeners call
reactiveSetterSilent(h, o, k, newValue) ==
    LET slot == h.props[o][k]
    IN  IF h.isRendering THEN Throw(h)
        ELSE IF newValue /= slot.old
        THEN Ret([h EXCEPT !.props[o][k].value = newValue], TRUE, Undef)
        ELSE Ret(h, TRUE, Undef)

\* the setter of the accessor on props[o][k]
reactiveSetter(h, o, k, newValue) ==
    LET slot == h.props[o][k]
    IN  IF h.isRendering THEN Throw(h)
        ELSE IF newValue /= slot.old
        THEN Ret(notifyListeners([h EXCEPT !.props[o][k].value = newValue],
                                 slot.tgt, k),
                 TRUE, Undef)
        ELSE Ret(h, TRUE, Undef)

\* ------------------------------------------------------------------------
\* language: originalTarget[key], originalTarget[key] = value and
\* delete originalTarget[key], in strict mode
OrdGet(h, o, key) ==
    LET slot == h.props[o][key]
    IN  IF slot.kind = "watch" THEN reactiveGetter(h, o, key)
        ELSE Ret(h, TRUE, slot.value)

\* the length of an array follows its elements
ArraySetLength(h, o, value) ==
    IF value \notin Nums THEN Throw(h)
    ELSE IF value = "0"
    THEN Ret([h EXCEPT !.props[o]["length"].value = value,
                       !.props[o]["0"] = NoSlot], TRUE, Undef)
    ELSE Ret([h EXCEPT !.props[o]["length"].value = value], TRUE, Undef)

OrdSet(h, o, key, value) ==
    LET slot == h.props[o][key]
    IN  IF slot.kind = "watch" THEN reactiveSetter(h, o, key, value)
        ELSE IF slot.kind = "data"
        THEN IF ~slot.writ THEN Throw(h)
             ELSE IF isArray(o) /\ key = "length" THEN ArraySetLength(h, o, value)
             ELSE Ret([h EXCEPT !.props[o][key].value = value], TRUE, Undef)
        ELSE IF ~h.ext[o] THEN Throw(h)
        ELSE IF isArray(o) /\ h.props[o]["length"].value = "0"
        THEN Ret([h EXCEPT !.props[o][key] = Data(value, TRUE, TRUE),
                           !.props[o]["length"].value = "1"], TRUE, Undef)
        ELSE Ret([h EXCEPT !.props[o][key] = Data(value, TRUE, TRUE)], TRUE, Undef)

OrdDelete(h, o, key) ==
    LET slot == h.props[o][key]
    IN  IF slot.kind /= "none" /\ ~slot.conf THEN Throw(h)
        ELSE Ret([h EXCEPT !.props[o][key] = NoSlot], TRUE, Undef)
\* ------------------------------------------------------------------------
\* The traps that read and write properties.
\* HandlerGet subscribing whether or not a render pass is active
HandlerGetTracksAlways(h, p, key) ==
    LET originalTarget == TargetOf(h, p)
        Subscribed(value, s) ==
            IF ~s.ok THEN s
            ELSE IF isObservable(s.h, value) THEN getReactiveProxy(s.h, value)
            ELSE Ret(s.h, TRUE, value)
        Read(g) ==
            IF ~g.ok THEN g
            ELSE Subscribed(g.ret,
                     subscribeToSetHook(g.h, h.vmBeingRendered,
                                        originalTarget, key))
    IN  Read(OrdGet(h, originalTarget, key))

HandlerGet(h, p, key) ==
    LET originalTarget == TargetOf(h, p)
        Subscribed(value, s) ==
            IF ~s.ok THEN s
            ELSE IF isObservable(s.h, value) THEN getReactiveProxy(s.h, value)
            ELSE Ret(s.h, TRUE, value)
        Read(g) ==
            IF ~g.ok THEN g
            ELSE Subscribed(g.ret,
                     IF h.isRendering /\ h.vmBeingRendered /= NoVM
                     THEN subscribeToSetHook(g.h, h.vmBeingRendered,
                                             originalTarget, key)
                     ELSE Ret(g.h, TRUE, Undef))
    IN  Read(OrdGet(h, originalTarget, key))

\* a data property the shadow target holds as non-configurable, non-writable
Frozen(slot) == slot.kind = "data" /\ ~slot.conf /\ ~slot.writ

\* [[Get]] of a proxy
ProxyGet(h, p, key) ==
    LET Checked(r) ==
            LET targetDesc == r.h.shProps[PIdx(p)][key]
            IN  IF r.ok /\ Frozen(targetDesc) /\ r.ret /= targetDesc.value
                THEN Throw(r.h) ELSE r
    IN  Checked(HandlerGet(h, p, key))

\* HandlerSet without its isRendering guard
HandlerSetWhileRendering(h, p, key, value) ==
    LET originalTarget == TargetOf(h, p)
        Written(w) ==
            IF w.ok THEN Ret(notifyListeners(w.h, originalTarget, key), TRUE, TRUE)
            ELSE w
        Read(g) ==
            LET oldValue == g.ret
            IN  IF ~g.ok THEN g
                ELSE IF oldValue /= value
                THEN Written(OrdSet(g.h, originalTarget, key, value))
                ELSE IF key = "length" /\ isArray(originalTarget)
                THEN Ret(notifyListeners(g.h, originalTarget, key), TRUE, TRUE)
                ELSE Ret(g.h, TRUE, TRUE)
    IN  Read(OrdGet(h, originalTarget, key))

HandlerSet(h, p, key, value) ==
    LET originalTarget == TargetOf(h, p)
        Written(w) ==
            IF w.ok THEN Ret(notifyListeners(w.h, originalTarget, key), TRUE, TRUE)
            ELSE w
        Read(g) ==
            LET oldValue == g.ret
            IN  IF ~g.ok THEN g
                ELSE IF oldValue /= value
                THEN Written(OrdSet(g.h, originalTarget, key, value))
                ELSE IF key = "length" /\ isArray(originalTarget)
                THEN Ret(notifyListeners(g.h, originalTarget, key), TRUE, TRUE)
                ELSE Ret(g.h, TRUE, TRUE)
    IN  IF h.isRendering THEN Ret(h, TRUE, FALSE)
        ELSE Read(OrdGet(h, originalTarget, key))

\* [[Set]] of a proxy, called by a strict-mode assignment: a trap that
\* returns false makes the assignment throw
ProxySet(h, p, key, value) ==
    LET Checked(r) ==
            LET targetDesc == r.h.shProps[PIdx(p)][key]
            IN  IF ~r.ok THEN r
                ELSE IF r.ret = FALSE THEN Throw(r.h)
                ELSE IF Frozen(targetDesc) /\ value /= targetDesc.value
                THEN Throw(r.h)
                ELSE r
    IN  Checked(HandlerSet(h, p, key, value))

\* HandlerDeleteProperty notifying only when the key existed
HandlerDeletePropertyIfPresent(h, p, key) ==
    LET originalTarget == TargetOf(h, p)
        Deleted(d) ==
            IF ~d.ok THEN d
            ELSE IF h.props[originalTarget][key].kind = "none"
            THEN Ret(d.h, TRUE, TRUE)
            ELSE Ret(notifyListeners(d.h, originalTarget, key), TRUE, TRUE)
    IN  Deleted(OrdDelete(h, originalTarget, key))

HandlerDeleteProperty(h, p, key) ==
    LET originalTarget == TargetOf(h, p)
        Deleted(d) ==
            IF ~d.ok THEN d
            ELSE Ret(notifyListeners(d.h, originalTarget, key), TRUE, TRUE)
    IN  Deleted(OrdDelete(h, originalTarget, key))

\* [[Delete]] of a proxy, called by a strict-mode delete
ProxyDelete(h, p, key) ==
    LET Checked(r) ==
            LET targetDesc == r.h.shProps[PIdx(p)][key]
            IN  IF ~r.ok THEN r
                ELSE IF r.ret = FALSE THEN Throw(r.h)
                ELSE IF targetDesc.kind /= "none" /\ ~targetDesc.conf
                THEN Throw(r.h)
                ELSE r
    IN  Checked(HandlerDeleteProperty(h, p, key))

\* assert.fail: the trap always throws
HandlerSetPrototypeOf(h, p) == Throw(h)

\* ------------------------------------------------------------------------
\* The application's data and who renders it:
\*   "single": o1 = {a: 1}, one consumer, every operation, and the last
\*             operation is recorded in last;
\*   "flat":   o1 = {a: 1, b: 0}, one consumer, every operation;
\*   "two":    o1 = {a: 1, b: 0}, two consumers, reads, writes and deletes;
\*   "nested": o1 = {b: o2}, o2 = {a: 0}, one consumer, every operation on
\*             o1, reads, writes and deletes on o2;
\*   "sealed": as "nested", with o1.b defined non-configurable by the
\*             application before o1 was wrapped;
\*   "frozen": as "sealed", with o1.b non-writable as well;
\*   "array":  arr = [1], two consumers, reads, writes and deletes.
Scenarios == {"single", "flat", "two", "nested", "sealed", "frozen", "array"}
\* the scenarios in which o1 holds o2
Nested == {"nested", "sealed", "frozen"}

InitProps(sc) ==
    [o \in Objs |-> [k \in Keys |->
        IF sc \in {"single", "flat", "two"} /\ o = "o1" /\ k = "a"
        THEN Data("1", TRUE, TRUE)
        ELSE IF sc \in {"flat", "two"} /\ o = "o1" /\ k = "b"
        THEN Data("0", TRUE, TRUE)
        ELSE IF sc = "nested" /\ o = "o1" /\ k = "b" THEN Data("o2", TRUE, TRUE)
        ELSE IF sc = "sealed" /\ o = "o1" /\ k = "b" THEN Data("o2", FALSE, TRUE)
        ELSE IF sc = "frozen" /\ o = "o1" /\ k = "b" THEN Data("o2", FALSE, FALSE)
        ELSE IF sc \in Nested /\ o = "o2" /\ k = "a" THEN Data("0", TRUE, TRUE)
        ELSE IF sc = "array" /\ o = "arr" /\ k = "0" THEN Data("1", TRUE, TRUE)
        ELSE IF sc = "array" /\ o = "arr" /\ k = "length" THEN Data("1", FALSE, TRUE)
        ELSE NoSlot]]

\* the objects of the scenario, and the keys the application uses on them
Live == IF scenario \in Nested THEN {"o1", "o2"}
        ELSE IF scenario = "array" THEN {"arr"}
        ELSE {"o1"}
KeysOf(o) ==
    IF isArray(o) THEN ArrKeys
    ELSE IF scenario = "single" THEN {"a"}
    ELSE IF scenario \in Nested THEN (IF o = "o1" THEN {"b"} ELSE {"a"})
    ELSE RecKeys
\* the consumers that render
VMs == IF scenario \in {"two", "array"} THEN Consumers ELSE {"vm1"}
\* the objects on which the application uses defineProperty,
\* getOwnPropertyDescriptor, preventExtensions and isExtensible
Structural == IF scenario \in {"single", "flat"} \cup Nested THEN {"o1"} ELSE {}
Traced == scenario = "single"

Identities == Objs \cup AllProxies

NoLast == [op |-> "-", p |-> "-", k |-> "-", v |-> "-", ok |-> TRUE, ret |-> "-"]
Last(op, p, k, v, ok, ret) ==
    IF Traced
    THEN [op |-> op, p |-> p, k |-> k, v |-> v, ok |-> ok, ret |-> ret]
    ELSE NoLast

Init ==
    /\ scenario \in Scenarios
    /\ props = InitProps(scenario)
    /\ ext = [o \in Objs |-> TRUE]
    /\ proxyTarget = <<>>
    /\ ReactiveMap = [o \in Objs |-> Undef]
    /\ shProps = [i \in 1..MaxProxies |-> [k \in Keys |-> NoSlot]]
    /\ shExt = [i \in 1..MaxProxies |-> TRUE]
    /\ TargetToPropsMap = [t \in Identities |-> [k \in Keys |-> {}]]
    /\ vmListeners = [vm \in Consumers |-> {}]
    /\ isDirty = [vm \in Consumers |-> FALSE]
    /\ scheduled = [vm \in Consumers |-> 0]
    /\ isRendering = FALSE
    /\ vmBeingRendered = NoVM
    /\ last = NoLast

\* the heap a handler leaves becomes the state
Commit(h) ==
    /\ ~h.over
    /\ props' = h.props
    /\ ext' = h.ext
    /\ proxyTarget' = h.proxyTarget
    /\ ReactiveMap' = h.ReactiveMap
    /\ shProps' = h.shProps
    /\ shExt' = h.shExt
    /\ TargetToPropsMap' = h.reg
    /\ vmListeners' = h.vmListeners
    /\ isDirty' = h.isDirty
    /\ scheduled' = h.scheduled
    /\ isRendering' = h.isRendering
    /\ vmBeingRendered' = h.vmBeingRendered
    /\ UNCHANGED scenario

\* undefined, the numbers and the Date
NonObservable == {Undef} \cup Nums \cup Foreign
\* the proxies that exist
Proxies == {ProxyNames[i] : i \in 1..Len(proxyTarget)}
T(p) == proxyTarget[PIdx(p)]
Bool(b) == IF b THEN "true" ELSE "false"

\* what application code stores: where o1 holds o2, o1.b holds o2 or a proxy of
\* o2; every other property holds a number
WriteVals(o) ==
    IF scenario \in Nested /\ o = "o1"
    THEN {"o2"} \cup {q \in Proxies : T(q) = "o2"}
    ELSE Nums
\* ------------------------------------------------------------------------
\* Operations of application code and of the render loop.

\* getReactiveProxy(v) on an original target, on a proxy, or on a value
\* that is not observable
Wrap(v) ==
    LET Step(r) == /\ Commit(r.h)
                   /\ last' = Last("wrap", v, "-", "-", r.ok, r.ret)
    IN  Step(getReactiveProxy(Heap, v))

\* invoker: a render pass of vm starts
BeginRender(vm) ==
    /\ ~isRendering
    /\ Commit(beginRender(Heap, vm))
    /\ last' = Last("beginRender", vm, "-", "-", TRUE, "-")

\* invoker: the render pass ends
EndRender ==
    /\ isRendering
    /\ Commit(endRender(Heap))
    /\ last' = Last("endRender", vmBeingRendered, "-", "-", TRUE, "-")

\* patcher: the scheduled rehydration of a dirty vm runs and cleans it
Clean(vm) ==
    /\ ~isRendering
    /\ isDirty[vm]
    /\ Commit(clean(Heap, vm))
    /\ last' = Last("clean", vm, "-", "-", TRUE, "-")

\* proxy[key]
Get(p, key) ==
    LET Step(r) ==
            /\ Commit(r.h)
            /\ last' = Last("get", p, key, "-", r.ok, IF r.ok THEN r.ret ELSE "-")
    IN  Step(ProxyGet(Heap, p, key))

\* proxy[key] = value
Set(p, key, value) ==
    LET Step(r) == /\ Commit(r.h)
                   /\ last' = Last("set", p, key, value, r.ok, "-")
    IN  Step(ProxySet(Heap, p, key, value))

\* delete proxy[key]
Delete(p, key) ==
    LET Step(r) == /\ Commit(r.h)
                   /\ last' = Last("delete", p, key, "-", r.ok,
                                   Bool(props[T(p)][key].kind /= "none"))
    IN  Step(ProxyDelete(Heap, p, key))

\* Object.defineProperty(proxy, key, {value, configurable, writable, enumerable: true})
DefineProperty(p, key, value, configurable, writable) ==
    LET Step(r) == /\ Commit(r.h)
                   /\ last' = Last("defineProperty", p, key, value, r.ok,
                                   Bool(configurable))
    IN  Step(ProxyDefineProperty(Heap, p, key,
                                 Data(value, configurable, writable)))

\* Object.preventExtensions(proxy)
PreventExtensions(p) ==
    LET Step(r) == /\ Commit(r.h)
                   /\ last' = Last("preventExtensions", p, "-", "-", r.ok, "-")
    IN  Step(ProxyPreventExtensions(Heap, p))

\* Object.isExtensible(proxy)
IsExtensible(p) ==
    LET Step(r) == /\ Commit(r.h)
                   /\ last' = Last("isExtensible", p, "-", "-", r.ok,
                                   IF r.ok THEN Bool(r.ret) ELSE "-")
    IN  Step(ProxyIsExtensible(Heap, p))

\* Object.getOwnPropertyDescriptor(proxy, key)
GetOwnPropertyDescriptor(p, key) ==
    LET Step(r) == /\ Commit(r.h)
                   /\ last' = Last("getOwnPropertyDescriptor", p, key, "-", r.ok,
                                   IF r.ok THEN r.ret.value ELSE "-")
    IN  Step(ProxyGetOwnPropertyDescriptor(Heap, p, key))

\* key in proxy
Has(p, key) ==
    LET Step(r) == /\ Commit(r.h)
                   /\ last' = Last("has", p, key, "-", r.ok,
                                   IF r.ok THEN Bool(r.ret) ELSE "-")
    IN  Step(ProxyHas(Heap, p, key))

\* Object.getOwnPropertyNames(proxy)
OwnPropertyNames(p) ==
    LET Step(r) == /\ Commit(r.h)
                   /\ last' = Last("ownKeys", p, "-", "-", r.ok, "-")
    IN  Step(ProxyOwnKeys(Heap, p))

\* Object.setPrototypeOf(proxy, prototype)
SetPrototypeOf(p) ==
    LET Step(r) == /\ Commit(r.h)
                   /\ last' = Last("setPrototypeOf", p, "-", "-", r.ok, "-")
    IN  Step(HandlerSetPrototypeOf(Heap, p))

\* original[key] = value on a retained original target, outside a render pass
DirectWrite(o, key, value) ==
    LET Step(r) == /\ Commit(r.h)
                   /\ last' = Last("directWrite", o, key, value, r.ok, "-")
    IN  ~isRendering /\ Step(OrdSet(Heap, o, key, value))

\* Object.preventExtensions(original) on a retained original target
DirectPreventExtensions(o) ==
    /\ ext[o]
    /\ Commit([Heap EXCEPT !.ext[o] = FALSE])
    /\ last' = Last("directPreventExtensions", o, "-", "-", TRUE, "-")

Next ==
    \/ \E v \in Live \cup Proxies \cup NonObservable : Wrap(v)
    \/ \E vm \in VMs : BeginRender(vm)
    \/ EndRender
    \/ \E vm \in VMs : Clean(vm)
    \/ \E p \in Proxies : \E key \in KeysOf(T(p)) : Get(p, key)
    \/ \E p \in Proxies : \E key \in KeysOf(T(p)) :
          \E value \in WriteVals(T(p)) : Set(p, key, value)
    \/ \E p \in Proxies : \E key \in KeysOf(T(p)) : Delete(p, key)
    \/ \E p \in Proxies : \E key \in KeysOf(T(p)) : \E value \in WriteVals(T(p)) :
          \E configurable, writable \in BOOLEAN :
             T(p) \in Structural /\ DefineProperty(p, key, value, configurable, writable)
    \/ \E p \in Proxies : T(p) \in Structural /\ PreventExtensions(p)
    \/ \E p \in Proxies : T(p) \in Structural /\ IsExtensible(p)
    \/ \E p \in Proxies : \E key \in KeysOf(T(p)) :
          T(p) \in Structural /\ GetOwnPropertyDescriptor(p, key)
    \/ \E p \in Proxies : T(p) \in Structural /\ SetPrototypeOf(p)
    \/ \E p \in Proxies : \E key \in KeysOf(T(p)) : Has(p, key)
    \/ \E p \in Proxies : OwnPropertyNames(p)
    \/ \E o \in Live : \E key \in KeysOf(o) : \E value \in WriteVals(o) :
          DirectWrite(o, key, value)
    \/ \E o \in Structural : DirectPreventExtensions(o)

Spec == Init /\ [][Next]_vars
\* ------------------------------------------------------------------------
\* Claims.  A handler applied to the current state with every input the
\* operations draw from gives the step the program would take; a claim about
\* what an operation does is an invariant over these results.
Registered(vm, o, k) == vm \in TargetToPropsMap[o][k]
\* the handlers changed neither flag nor schedule count of vm
Untouched(h, vm) == h.isDirty[vm] = isDirty[vm] /\ h.scheduled[vm] = scheduled[vm]
\* the value of o[k], read without side effect
ValueOf(h, o, k) == h.props[o][k].value

\* C1: a consumer that read own property p of t in its render pass is made
\* dirty and scheduled exactly once by a later write of a different value
\* to p, for every own property p (an array's length included); writes made
\* while it is dirty schedule nothing more.
C1_ReadThenWriteSchedulesOnce ==
    \A p \in Proxies : \A k \in KeysOf(T(p)) : \A vm \in VMs :
       \A v \in WriteVals(T(p)) :
          LET rd == ProxyGet(beginRender(Heap, vm), p, k)
              h1 == endRender(rd.h)
              wr == ProxySet(h1, p, k, v)
          IN  /\ ( /\ ~isRendering
                   /\ props[T(p)][k].kind /= "none"
                   /\ rd.ok /\ ~rd.h.over /\ ~wr.h.over
                   /\ ~h1.isDirty[vm]
                   /\ v /= ValueOf(h1, T(p), k) )
                 => (wr.h.isDirty[vm] /\ wr.h.scheduled[vm] = 1)
              /\ (~isRendering /\ isDirty[vm])
                 => ProxySet(Heap, p, k, v).h.scheduled[vm] = scheduled[vm]

\* C2: scheduleRehydration(vm) is called only when vm goes from clean to
\* dirty: a dirty vm has been scheduled exactly once since it was last
\* cleaned, a clean one not at all, and one notifyListeners call marks and
\* schedules each registered clean vm once and leaves the others alone.
C2_ScheduledOnlyOnCleanToDirty ==
    /\ \A vm \in Consumers : scheduled[vm] = IF isDirty[vm] THEN 1 ELSE 0
    /\ \A t \in Live \cup Proxies : \A k \in KeysOf(unwrap(Heap, t)) :
          LET h2 == notifyListeners(Heap, t, k)
          IN  \A vm \in Consumers :
                 IF Registered(vm, t, k) /\ ~isDirty[vm]
                 THEN h2.isDirty[vm] /\ h2.scheduled[vm] = 1
                 ELSE Untouched(h2, vm)

\* a successful write to a watched property, notified by its setter and by
\* the set trap, left vm1 scheduled once
C2_Witness ==
    /\ last.op = "set" /\ last.ok
    /\ props["o1"]["a"].kind = "watch"
    /\ Registered("vm1", "o1", "a")
    /\ isDirty["vm1"] /\ scheduled["vm1"] = 1

\* C3: a write or delete of p through the proxy of t marks and schedules
\* only consumers registered for (t, p); consumers registered for other
\* properties of t or for a property of the object that holds t stay as
\* they are.
C3_OnlyRegisteredNotified ==
    \A p \in Proxies : \A k \in KeysOf(T(p)) : \A vm \in Consumers :
       ~Registered(vm, T(p), k) =>
          /\ \A v \in WriteVals(T(p)) : Untouched(ProxySet(Heap, p, k, v).h, vm)
          /\ Untouched(ProxyDelete(Heap, p, k).h, vm)

\* vm1, registered for a, was notified; vm2, registered for b only, was not
C3_Witness ==
    /\ scenario = "two"
    /\ Registered("vm1", "o1", "a") /\ ~Registered("vm1", "o1", "b")
    /\ Registered("vm2", "o1", "b") /\ ~Registered("vm2", "o1", "a")
    /\ isDirty["vm1"] /\ ~isDirty["vm2"]

\* C4: a write through a proxy during a render pass fails and changes
\* nothing: no property, no dirty flag, no schedule, no registry entry, no
\* proxy.
C4_SetWhileRenderingRejected ==
    \A p \in Proxies : \A k \in KeysOf(T(p)) : \A v \in WriteVals(T(p)) :
       isRendering =>
          LET r == ProxySet(Heap, p, k, v)
          IN  ~r.ok /\ r.h = Heap

C4_Witness ==
    /\ last.op = "set" /\ ~last.ok
    /\ isRendering
    /\ props["o1"]["a"].kind /= "none" /\ last.v /= ValueOf(Heap, "o1", "a")

\* C5: during a render pass no operation through a proxy (write, delete,
\* define property, prevent extensions) changes a property, a key set or
\* the extensibility of an original target, or marks or schedules a
\* consumer.
RenderPure(h) ==
    /\ h.props = props /\ h.ext = ext
    /\ h.isDirty = isDirty /\ h.scheduled = scheduled

C5_NoMutationWhileRendering ==
    \A p \in Proxies : \A k \in KeysOf(T(p)) :
       isRendering =>
          /\ \A v \in WriteVals(T(p)) : RenderPure(ProxySet(Heap, p, k, v).h)
          /\ RenderPure(ProxyDelete(Heap, p, k).h)
          /\ T(p) \in Structural =>
                /\ RenderPure(ProxyPreventExtensions(Heap, p).h)
                /\ \A v \in WriteVals(T(p)) : \A c, w \in BOOLEAN :
                      RenderPure(ProxyDefineProperty(Heap, p, k, Data(v, c, w)).h)

\* C6: outside a render pass, writing back the value a property has, or the
\* value just read through the proxy, changes no property and notifies
\* nobody, except that on an array the equal length notifies the consumers
\* of (target, length).
C6_SameValueWriteIsSilent ==
    \A p \in Proxies : \A k \in KeysOf(T(p)) :
       ~isRendering =>
          LET rd == ProxyGet(Heap, p, k)
              wr == ProxySet(rd.h, p, k, rd.ret)
          IN  (rd.ok /\ ~rd.h.over) =>
                 /\ wr.h.props = rd.h.props
                 /\ \A vm \in Consumers :
                       (isArray(T(p)) /\ k = "length" /\ Registered(vm, T(p), k))
                       \/ Untouched(wr.h, vm)
\* C7: outside a render pass a delete through the proxy always notifies the
\* consumers of (target, k), whether or not k existed; with no registry
\* entry for (target, k) it touches no consumer.
Deletable(o, k) == props[o][k].kind = "none" \/ props[o][k].conf

C7_DeleteAlwaysNotifies ==
    \A p \in Proxies : \A k \in KeysOf(T(p)) :
       ~isRendering =>
          LET r == ProxyDelete(Heap, p, k)
          IN  /\ \A vm \in Consumers :
                    (Registered(vm, T(p), k) /\ ~isDirty[vm])
                    => (r.h.isDirty[vm] /\ r.h.scheduled[vm] = 1)
              /\ TargetToPropsMap[T(p)][k] = {}
                 => \A vm \in Consumers : Untouched(r.h, vm)

\* C7 as amended: for a key that is absent from the original target or
\* configurable on it the delete leaves the key absent and notifies the
\* clean consumers of (target, k); without a registry entry the delete
\* touches no consumer and the trap returns true.
C7_DeleteOfDeletableNotifies ==
    \A p \in Proxies : \A k \in KeysOf(T(p)) :
       ~isRendering =>
          LET r == ProxyDelete(Heap, p, k)
              t == HandlerDeleteProperty(Heap, p, k)
          IN  /\ Deletable(T(p), k) =>
                    /\ r.h.props[T(p)][k].kind = "none"
                    /\ \A vm \in Consumers :
                          (Registered(vm, T(p), k) /\ ~isDirty[vm])
                          => (r.h.isDirty[vm] /\ r.h.scheduled[vm] = 1)
              /\ TargetToPropsMap[T(p)][k] = {} =>
                    /\ \A vm \in Consumers : Untouched(r.h, vm)
                    /\ Deletable(T(p), k) => (t.ok /\ t.ret = TRUE)

\* the delete of a key that was already absent notified vm1
C7_Witness ==
    /\ last.op = "delete" /\ last.ok /\ last.ret = "false"
    /\ Registered("vm1", "o1", "a")
    /\ isDirty["vm1"] /\ scheduled["vm1"] = 1

\* C8: one proxy per original target: wrapping x twice, wrapping its proxy
\* and reading an observable value through a proxy all give the proxy the
\* cache holds for the target, and unwrap gives the target back.
C8_OneProxyPerTarget ==
    /\ \A i, j \in 1..Len(proxyTarget) :
          proxyTarget[i] = proxyTarget[j] => i = j
    /\ \A i \in 1..Len(proxyTarget) : ReactiveMap[proxyTarget[i]] = ProxyNames[i]
    /\ \A o \in Objs : ReactiveMap[o] /= Undef => ReactiveMap[o] \in Proxies
    /\ \A x \in Live :
          LET r1 == getReactiveProxy(Heap, x)
              r2 == getReactiveProxy(r1.h, x)
              r3 == getReactiveProxy(r2.h, r1.ret)
          IN  ~r1.h.over =>
                 /\ IsProxy(r1.ret)
                 /\ r2.ret = r1.ret /\ r3.ret = r1.ret
                 /\ r3.h = r1.h
                 /\ unwrap(r1.h, r1.ret) = x
    /\ \A p \in Proxies : \A k \in KeysOf(T(p)) :
          LET g == ProxyGet(Heap, p, k)
              v == ValueOf(g.h, T(p), k)
          IN  (g.ok /\ ~g.h.over /\ isObservable(g.h, v)) =>
                 /\ IsProxy(g.ret)
                 /\ g.ret = g.h.ReactiveMap[unwrap(g.h, v)]
                 /\ g.ret = getReactiveProxy(g.h, v).ret

\* both o1 and the object it holds have their proxy
C8_Witness ==
    /\ scenario = "nested"
    /\ ReactiveMap["o1"] /= Undef /\ ReactiveMap["o2"] /= Undef
    /\ Len(proxyTarget) = 2

\* C9: no original target ever holds a proxy as a property value.
C9_NoProxyInData ==
    \A o \in Objs : \A k \in Keys : ~IsProxy(props[o][k].value)

\* C10: once an original target is not extensible, isExtensible on its
\* proxy answers false and agrees with the shadow target, and adding a
\* property through the proxy, by a write or by defineProperty, fails,
\* leaves the key set as it was and notifies nobody.
C10_NonExtensibleStays ==
    \A p \in Proxies :
       (T(p) \in Structural /\ ~ext[T(p)]) =>
          /\ LET r == ProxyIsExtensible(Heap, p)
             IN  r.ok /\ r.ret = FALSE /\ ~r.h.shExt[PIdx(p)] /\ ~r.h.ext[T(p)]
          /\ \A k \in KeysOf(T(p)) : \A v \in WriteVals(T(p)) :
                props[T(p)][k].kind = "none" =>
                   /\ LET r == ProxySet(Heap, p, k, v)
                      IN  /\ ~r.ok
                          /\ KeySet(r.h.props[T(p)]) = KeySet(props[T(p)])
                          /\ \A vm \in Consumers : Untouched(r.h, vm)
                   /\ \A c, w \in BOOLEAN :
                         LET r == ProxyDefineProperty(Heap, p, k, Data(v, c, w))
                         IN  /\ ~r.ok
                             /\ KeySet(r.h.props[T(p)]) = KeySet(props[T(p)])
                             /\ \A vm \in Consumers : Untouched(r.h, vm)

\* C11: for a non-configurable own property k of an original target, two
\* getOwnPropertyDescriptor queries through the proxy in a row, the first
\* of which may mirror k onto the shadow target, both succeed and report
\* the same value and the same attribute flags.
C11_DescriptorStable ==
    \A p \in Proxies : \A k \in KeysOf(T(p)) :
       (props[T(p)][k].kind = "data" /\ ~props[T(p)][k].conf) =>
          LET r1 == ProxyGetOwnPropertyDescriptor(Heap, p, k)
              r2 == ProxyGetOwnPropertyDescriptor(r1.h, p, k)
          IN  (r1.ok /\ ~r1.h.over) => (r2.ok /\ r2.ret = r1.ret)

\* C12: a write, delete, defineProperty, preventExtensions or
\* setPrototypeOf through a proxy that fails leaves the original targets
\* (keys, kinds, attributes, values, extensibility), the shadow targets,
\* the registry and the proxy cache as they were.
Visible(slots) ==
    [k \in Keys |-> [kind |-> slots[k].kind, value |-> slots[k].value,
                     conf |-> slots[k].conf, writ |-> slots[k].writ]]
SameState(h) ==
    /\ \A o \in Objs : Visible(h.props[o]) = Visible(props[o])
    /\ h.ext = ext
    /\ h.shProps = shProps /\ h.shExt = shExt
    /\ h.reg = TargetToPropsMap /\ h.vmListeners = vmListeners
    /\ h.ReactiveMap = ReactiveMap /\ h.proxyTarget = proxyTarget
NoTrace(r) == ~r.ok => SameState(r.h)

C12_FailedOperationLeavesNoTrace ==
    \A p \in Proxies :
       /\ NoTrace(ProxyPreventExtensions(Heap, p))
       /\ NoTrace(HandlerSetPrototypeOf(Heap, p))
       /\ \A k \in KeysOf(T(p)) :
             /\ NoTrace(ProxyDelete(Heap, p, k))
             /\ \A v \in WriteVals(T(p)) :
                   /\ NoTrace(ProxySet(Heap, p, k, v))
                   /\ \A c, w \in BOOLEAN :
                         NoTrace(ProxyDefineProperty(Heap, p, k, Data(v, c, w)))

\* C13: a direct write to a property of a retained original target, outside
\* a render pass, never marks or schedules a consumer.
C13_DirectWriteNeverNotifies ==
    \A o \in Live : \A k \in KeysOf(o) : \A v \in WriteVals(o) :
       ~isRendering =>
          \A vm \in Consumers : Untouched(OrdSet(Heap, o, k, v).h, vm)

\* C13 as amended: a direct write to a property that watchProperty has not
\* converted touches no consumer; a direct write to a converted property of
\* a value other than the one last read marks and schedules once the clean
\* consumers registered for it and touches no other consumer.
C13_DirectWriteNotifiesOnlyWatched ==
    \A o \in Live : \A k \in KeysOf(o) : \A v \in WriteVals(o) :
       ~isRendering =>
          LET slot == props[o][k]
              r == OrdSet(Heap, o, k, v)
          IN  IF slot.kind /= "watch"
              THEN \A vm \in Consumers : Untouched(r.h, vm)
              ELSE \A vm \in Consumers :
                      IF v /= slot.old /\ ~isDirty[vm] /\ Registered(vm, slot.tgt, k)
                      THEN r.h.isDirty[vm] /\ r.h.scheduled[vm] = 1
                      ELSE Untouched(r.h, vm)

\* vm1 is registered for (o1, a), a was deleted and then written directly
\* as a plain data property: vm1, cleaned in between, was not notified
C13_Witness ==
    /\ last.op = "directWrite" /\ last.ok
    /\ props["o1"]["a"].kind = "data"
    /\ Registered("vm1", "o1", "a") /\ ~isDirty["vm1"]

\* C14: getReactiveProxy on a value that is not observable (undefined, a
\* number, an object with another prototype) throws and changes nothing; on
\* an array, an object with prototype Object.prototype or null, or a proxy
\* of one it returns a proxy.
C14_WrapRejectsNonObservable ==
    /\ \A x \in NonObservable :
          LET r == getReactiveProxy(Heap, x)
          IN  ~r.ok /\ r.h = Heap
    /\ \A x \in Objs \cup Proxies :
          LET r == getReactiveProxy(Heap, x)
          IN  r.ok /\ (~r.h.over => (IsProxy(r.ret) /\ TargetOf(r.h, r.ret) = unwrap(Heap, x)))

\* a wrap was rejected while a proxy exists
C14_Witness ==
    /\ last.op = "wrap" /\ ~last.ok /\ last.p \in NonObservable
    /\ Proxies /= {}

\* C15: a read through a proxy outside a render pass, and has and ownKeys
\* at any time, leave the registry and every consumer's listeners as they
\* are; a read during a render pass adds entries for the consumer being
\* rendered only.
SameRegistry(h) == h.reg = TargetToPropsMap /\ h.vmListeners = vmListeners

C15_OnlyRenderReadsTrack ==
    \A p \in Proxies :
       /\ SameRegistry(ProxyOwnKeys(Heap, p).h)
       /\ \A k \in KeysOf(T(p)) :
             /\ SameRegistry(ProxyHas(Heap, p, k).h)
             /\ LET r == ProxyGet(Heap, p, k)
                IN  IF ~isRendering THEN SameRegistry(r.h)
                    ELSE /\ \A t \in Identities : \A kk \in Keys :
                               r.h.reg[t][kk] \subseteq
                                  TargetToPropsMap[t][kk] \cup {vmBeingRendered}
                         /\ \A vm \in Consumers \ {vmBeingRendered} :
                               r.h.vmListeners[vm] = vmListeners[vm]

\* a read made outside a render pass returned the value and registered
\* nobody for the key it read
C15_Witness ==
    /\ last.op = "get" /\ last.ok /\ last.ret = "1"
    /\ ~isRendering
    /\ TargetToPropsMap["o1"]["a"] = {} /\ vmListeners["vm1"] = {}

\* C16: a listener set is in a consumer's listeners exactly when the
\* consumer is a member of that set, and recording a (consumer, target,
\* property) triple a second time changes nothing.
C16_RegistryBookkeeping ==
    /\ \A vm \in Consumers : \A t \in Identities : \A k \in Keys :
          (<<t, k>> \in vmListeners[vm]) <=> (vm \in TargetToPropsMap[t][k])
    /\ \A vm \in VMs : \A t \in Live : \A k \in KeysOf(t) :
          LET r1 == subscribeToSetHook(Heap, vm, t, k)
              r2 == subscribeToSetHook(r1.h, vm, t, k)
          IN  r1.ok => (r2.ok /\ r2.h = r1.h)

\* both consumers joined the listener set of (o1, a), vm1 also that of (o1, b)
C16_Witness ==
    /\ scenario = "two"
    /\ TargetToPropsMap["o1"]["a"] = {"vm1", "vm2"}
    /\ TargetToPropsMap["o1"]["b"] = {"vm1"}
    /\ vmListeners["vm1"] = {<<"o1", "a">>, <<"o1", "b">>}
    /\ vmListeners["vm2"] = {<<"o1", "a">>}

\* C17: for every property the shadow target of a proxy holds as
\* non-configurable (the length an array shadow target is born with
\* aside), a read and a getOwnPropertyDescriptor through the proxy succeed
\* and report the value the shadow target stores.
C17_ShadowConsistent ==
    \A p \in Proxies : \A k \in KeysOf(T(p)) :
       LET sh == shProps[PIdx(p)][k]
           g == ProxyGet(Heap, p, k)
           d == ProxyGetOwnPropertyDescriptor(Heap, p, k)
       IN  ( /\ sh.kind = "data" /\ ~sh.conf
             /\ ~(isArray(T(p)) /\ k = "length")
             /\ ~g.h.over /\ ~d.h.over ) =>
              /\ g.ok /\ g.ret = sh.value
              /\ d.ok /\ d.ret.kind = "data" /\ d.ret.value = sh.value

\* C18: once the shadow target of a proxy is locked, the keys the ownKeys
\* trap returns are the own keys of the shadow target, and the
\* deleteProperty trap does not return true for a key the shadow target
\* still holds.
C18_LockedShadowKeysAgree ==
    \A p \in Proxies :
       ~shExt[PIdx(p)] =>
          /\ LET r == HandlerOwnKeys(Heap, p)
             IN  {r.ret[n] : n \in 1..Len(r.ret)} = KeySet(shProps[PIdx(p)])
          /\ \A k \in KeysOf(T(p)) :
                LET d == HandlerDeleteProperty(Heap, p, k)
                IN  (d.ok /\ d.ret = TRUE /\ ~d.h.over) =>
                       d.h.shProps[PIdx(p)][k].kind = "none"

\* C19: a read through a proxy leaves every original target as it was:
\* keys, kinds (data or accessor), attributes and values.
C19_ReadLeavesTargetUnchanged ==
    \A p \in Proxies : \A k \in KeysOf(T(p)) :
       LET r == ProxyGet(Heap, p, k)
       IN  ~r.h.over =>
              \A o \in Objs : Visible(r.h.props[o]) = Visible(props[o])

\* C19 as amended: a read leaves the keys, the values and the configurable
\* flags of every original target as they were; outside a render pass it
\* leaves the kinds as well, and during a render pass the only change is
\* that configurable data properties become watcher accessors.
C19_ReadKeepsKeysAndValues ==
    \A p \in Proxies : \A k \in KeysOf(T(p)) :
       LET r == ProxyGet(Heap, p, k)
       IN  ~r.h.over =>
              \A o \in Objs : \A kk \in Keys :
                 LET before == props[o][kk]
                     after == r.h.props[o][kk]
                 IN  /\ after.value = before.value
                     /\ after.conf = before.conf
                     /\ (after.kind = "none") <=> (before.kind = "none")
                     /\ IF isRendering
                        THEN \/ after.kind = before.kind /\ after.writ = before.writ
                             \/ /\ before.kind = "data" /\ before.conf
                                /\ after.kind = "watch"
                        ELSE after.kind = before.kind /\ after.writ = before.writ

\* a read in a render pass returned 1 and left a as a watcher accessor
\* holding 1
C19_Witness ==
    /\ last.op = "get" /\ last.ok /\ last.ret = "1"
    /\ isRendering
    /\ props["o1"]["a"].kind = "watch" /\ props["o1"]["a"].value = "1"

\* C20: outside a render pass a write of v to a property that watchProperty
\* has converted, made directly on the original target or through a proxy,
\* succeeds and is followed by a read that returns v.
C20_NoLostWrite ==
    ~isRendering =>
       /\ \A o \in Live : \A k \in KeysOf(o) : \A v \in WriteVals(o) :
             props[o][k].kind = "watch" =>
                LET w == OrdSet(Heap, o, k, v)
                    g == OrdGet(w.h, o, k)
                IN  ~w.h.over => (w.ok /\ g.ok /\ g.ret = v)
       /\ \A p \in Proxies : \A k \in KeysOf(T(p)) : \A v \in WriteVals(T(p)) :
             props[T(p)][k].kind = "watch" =>
                LET w == ProxySet(Heap, p, k, v)
                    g == ProxyGet(w.h, p, k)
                IN  (~w.h.over /\ ~g.h.over) =>
                       (w.ok /\ g.ok /\ unwrap(g.h, g.ret) = unwrap(Heap, v))
====
